---- MODULE Spec2Model ----
(***************************************************************************)
(* Attack evaluation of python-algo/algo_strategy.py:                      *)
(*   gain_of_attack      the frame-stepped combat simulation of one squad  *)
(*   total_target_health the enemy health within range of a cell           *)
(*   attempt_to_attack   the search over deploy locations and the choice   *)
(*                       between the scout and the demolisher+interceptor  *)
(*                       strategy                                          *)
(* The game engine (map, paths, unit table, resources, spawn surface) is   *)
(* the environment: what it returns is drawn from bounded sets in Init.    *)
(*                                                                         *)
(* Python values that may be absent are sequences of length <= 1:          *)
(*   <<>> is None / an unbound local, <<v>> is the number v.               *)
(* A location is <<x, y>>.  A quotient a/b is kept exactly as <<a, b>>     *)
(* with b > 0 and compared by cross-multiplication.                        *)
(***************************************************************************)
EXTENDS Integers, Sequences, FiniteSets, TLC

----------------------------------------------------------------------------
(* Bounds of the model *)

\* number of locations on the friendly edges
NumEdge == 3
\* most attackers get_attackers reports for one cell
MaxTurrets == 2
\* most mobile points the player holds
MaxMP == 6
\* most units handed to one gain_of_attack call in GainSpec
MaxUnits == 3
\* longest path in GainSpec
MaxPathLen == 2

----------------------------------------------------------------------------
(* Constants of the program *)

\* on_game_start, line 50
minGainPerSPSpent == 10
\* on_game_start, line 51
weight_damage_enemy == 1
\* on_game_start, line 52
weight_score == 12
\* attempt_to_attack, lines 115-117: the value the gains start from
initial_gain == -999
\* attempt_to_attack, line 121: the location the interceptor slots start from
initial_location == <<0, 0>>

SCOUT == "SCOUT"
DEMOLISHER == "DEMOLISHER"
INTERCEPTOR == "INTERCEPTOR"
UnitTypes == {SCOUT, DEMOLISHER, INTERCEPTOR}

\* Python's None, and a local that was never assigned
None == <<>>
Unbound == <<>>

Min(a, b) == IF a <= b THEN a ELSE b

----------------------------------------------------------------------------
(* The environment: unit table, map cells, paths *)

\* One row of config["unitInformation"] as gamelib.GameUnit exposes it.
\* speed is the fraction num/den of a cell per frame, attackRange is in
\* tenths of a cell, cost is type_cost(unit)[MP].
UnitInfo(h, d, sn, sd, r, c) ==
    [health |-> h, damage_f |-> d, speed |-> <<sn, sd>>,
     attackRange |-> r, cost |-> c]

\* Unit tables are data the engine hands to on_game_start (lines 34-41);
\* these are the sample tables the model plays a turn with.
\* Light scouts, fragile slow demolishers, sturdy slower interceptors.
BaseConfig ==
    [turret_damage_i |-> 5,
     units |-> [t \in UnitTypes |->
        CASE t = SCOUT       -> UnitInfo(15, 2, 1, 1, 35, 1)
          [] t = DEMOLISHER  -> UnitInfo(5, 8, 1, 2, 45, 3)
          [] t = INTERCEPTOR -> UnitInfo(40, 0, 1, 4, 45, 1)]]

\* A unit table with stronger turrets and demolishers that hit much harder.
SiegeConfig ==
    [turret_damage_i |-> 10,
     units |-> [t \in UnitTypes |->
        CASE t = SCOUT       -> UnitInfo(15, 2, 1, 1, 35, 1)
          [] t = DEMOLISHER  -> UnitInfo(5, 600, 1, 2, 45, 3)
          [] t = INTERCEPTOR -> UnitInfo(40, 0, 1, 4, 45, 1)]]

\* A unit table with strong turrets, armoured demolishers and interceptors
\* that spend two frames on a cell.
BastionConfig ==
    [turret_damage_i |-> 20,
     units |-> [t \in UnitTypes |->
        CASE t = SCOUT       -> UnitInfo(15, 2, 1, 1, 35, 1)
          [] t = DEMOLISHER  -> UnitInfo(60, 8, 1, 2, 45, 3)
          [] t = INTERCEPTOR -> UnitInfo(40, 0, 1, 2, 45, 1)]]

\* A unit table whose scouts cross more than one cell per frame.
SwiftConfig ==
    [turret_damage_i |-> 5,
     units |-> [t \in UnitTypes |->
        CASE t = SCOUT       -> UnitInfo(15, 2, 2, 1, 35, 1)
          [] t = DEMOLISHER  -> UnitInfo(5, 8, 1, 1, 45, 3)
          [] t = INTERCEPTOR -> UnitInfo(40, 0, 1, 2, 45, 1)]]

\* the unit tables a turn is played with, and those gain_of_attack is run on
Configs == {BaseConfig, SiegeConfig, BastionConfig}
GainConfigs == Configs \cup {SwiftConfig}

\* A unit standing near a cell: its owner, its health, its distance (tenths).
MapUnit(p, h, d) == [player_index |-> p, health |-> h, dist |-> d]

\* What stands around a cell: nothing, or an own wall, an enemy wall at
\* long range and seven enemy turrets at short range.
EmptyGround == <<>>
Fortress ==
    <<MapUnit(0, 60, 10), MapUnit(1, 60, 40)>> \o [i \in 1..7 |-> MapUnit(1, 75, 30)]
Grounds == {EmptyGround, Fortress}

\* A cell of a path: how many attackers get_attackers(cell, 0) reports and
\* the units of game_map around it.
Cells == [num_turrets : 0..MaxTurrets, units : Grounds]

PathsUpTo(n) == UNION {[1..k -> Cells] : k \in 0..n}

----------------------------------------------------------------------------
(* total_target_health, lines 189-198 *)

RECURSIVE SumEnemyHealth(_, _)
SumEnemyHealth(units, unit_range) ==
    IF units = <<>> THEN 0
    ELSE LET enemy_unit == Head(units)
             rest == SumEnemyHealth(Tail(units), unit_range)
         IN IF enemy_unit.dist > unit_range THEN rest
            ELSE IF enemy_unit.player_index = 0 THEN rest
            ELSE enemy_unit.health + rest

total_target_health(cell, unit_range) == SumEnemyHealth(cell.units, unit_range)

----------------------------------------------------------------------------
(* gain_of_attack, lines 167-186 *)

\* range(int(1/speed)): the frames a unit spends on one cell
FramesPerCell(unit_class) == unit_class.speed[2] \div unit_class.speed[1]

\* lines 172-178: the locals before the loop over the path
SquadStart(unit_class, number_units) ==
    [damage_dealt |-> 0,
     remaining_units |-> number_units,
     total_heath |-> unit_class.health * number_units]

\* FrameStep with line 185 written without its "+ 1"
FrameStepWithoutBias(squad, unit_class, cell, turret_damage) ==
    LET total_damage == unit_class.damage_f * squad.remaining_units
        dealt == squad.damage_dealt
                   + Min(total_damage, total_target_health(cell, unit_class.attackRange))
        heath == squad.total_heath - cell.num_turrets * turret_damage
    IN [damage_dealt |-> dealt,
        total_heath |-> heath,
        remaining_units |-> heath \div unit_class.health]

\* lines 182-185: one frame on a cell
FrameStep(squad, unit_class, cell, turret_damage) ==
    LET total_damage == unit_class.damage_f * squad.remaining_units
        dealt == squad.damage_dealt
                   + Min(total_damage, total_target_health(cell, unit_class.attackRange))
        heath == squad.total_heath - cell.num_turrets * turret_damage
    IN [damage_dealt |-> dealt,
        total_heath |-> heath,
        remaining_units |-> (heath \div unit_class.health) + 1]

RECURSIVE RunFrames(_, _, _, _, _)
RunFrames(squad, frames, unit_class, cell, turret_damage) ==
    IF frames <= 0 THEN squad
    ELSE RunFrames(FrameStep(squad, unit_class, cell, turret_damage),
                   frames - 1, unit_class, cell, turret_damage)

\* line 186
WeightedGain(squad) ==
    squad.damage_dealt * weight_damage_enemy + squad.remaining_units * weight_score

\* The whole call: the loop over the path returns inside its first
\* iteration (line 186), and an empty path falls off the end of the function.
gain_of_attack(cfg, path, number_units, unit_type) ==
    IF path = <<>> THEN None
    ELSE LET unit_class == cfg.units[unit_type]
             squad == RunFrames(SquadStart(unit_class, number_units),
                                FramesPerCell(unit_class), unit_class,
                                Head(path), cfg.turret_damage_i)
         IN <<WeightedGain(squad)>>

----------------------------------------------------------------------------
(* State *)

VARIABLES
    \* the environment of one turn
    config,                       \* the unit table handed to on_game_start
    mp,                           \* game_state.get_resource(MP)
    board,                        \* per friendly edge location: blocked, path
    \* attempt_to_attack: position and locals
    pc,
    max_scout_spawn, max_interceptor_spawn, max_demolisher_spawn,
    scout_gain, demolisher_gain, interceptor_gains,
    scout_deploy_location, demolisher_deploy_location,
    interceptor_deploy_locations,
    deploy_locations,
    visited,                      \* candidates the for loop has gone through
    opt1_gain, location_index, opt2_gain,
    spawned,                      \* the attempt_spawn calls issued, in order
    fault,                        \* the exception that ended the call
    \* gain_of_attack: position, arguments and locals
    g_pc, number_units, unit_type, path, squad, frame_index, result

envVars == <<config, mp, board>>
attackVars ==
    <<pc, max_scout_spawn, max_interceptor_spawn, max_demolisher_spawn,
      scout_gain, demolisher_gain, interceptor_gains,
      scout_deploy_location, demolisher_deploy_location,
      interceptor_deploy_locations, deploy_locations, visited,
      opt1_gain, location_index, opt2_gain, spawned, fault>>
gainVars == <<g_pc, number_units, unit_type, path, squad, frame_index, result>>
vars == <<envVars, attackVars, gainVars>>

----------------------------------------------------------------------------
(* GainSpec: one call of gain_of_attack, frame by frame *)

NoSquad == [damage_dealt |-> 0, remaining_units |-> 0, total_heath |-> 0]

\* attempt_to_attack before its first statement: no local is bound yet
AttackUnset ==
    /\ max_scout_spawn = 0 /\ max_interceptor_spawn = 0 /\ max_demolisher_spawn = 0
    /\ scout_gain = 0 /\ demolisher_gain = 0
    /\ interceptor_gains = Unbound
    /\ scout_deploy_location = Unbound /\ demolisher_deploy_location = Unbound
    /\ interceptor_deploy_locations = Unbound
    /\ deploy_locations = <<>> /\ visited = 0
    /\ opt1_gain = Unbound /\ location_index = Unbound /\ opt2_gain = Unbound
    /\ spawned = <<>> /\ fault = None

GainIdle ==
    /\ g_pc = "idle"
    /\ number_units = 0 /\ unit_type = SCOUT /\ path = <<>>
    /\ squad = NoSquad /\ frame_index = 0 /\ result = None

GainInit ==
    /\ config \in GainConfigs
    /\ mp = 0
    /\ board = <<>>
    /\ pc = "idle"
    /\ AttackUnset
    /\ g_pc = "call"
    /\ number_units \in 0..MaxUnits
    /\ unit_type \in UnitTypes
    /\ path \in PathsUpTo(MaxPathLen)
    /\ squad = NoSquad /\ frame_index = 0 /\ result = None

unit_class == config.units[unit_type]

\* lines 171-178
GainEnter ==
    /\ g_pc = "call"
    /\ squad' = SquadStart(unit_class, number_units)
    /\ frame_index' = 0
    /\ g_pc' = "path"
    /\ UNCHANGED <<envVars, attackVars, number_units, unit_type, path, result>>

\* lines 180-185: one pass of the frame loop on the first cell of the path
GainFrame ==
    /\ g_pc = "path"
    /\ path # <<>>
    /\ frame_index < FramesPerCell(unit_class)
    /\ squad' = FrameStep(squad, unit_class, Head(path), config.turret_damage_i)
    /\ frame_index' = frame_index + 1
    /\ UNCHANGED <<envVars, attackVars, g_pc, number_units, unit_type, path, result>>

\* line 186: the return inside the loop over the path
GainReturn ==
    /\ g_pc = "path"
    /\ path # <<>>
    /\ frame_index >= FramesPerCell(unit_class)
    /\ result' = <<WeightedGain(squad)>>
    /\ g_pc' = "returned"
    /\ UNCHANGED <<envVars, attackVars, number_units, unit_type, path, squad, frame_index>>

\* line 179 with an empty path: the loop body never runs, the function
\* ends without a return statement and the call yields None
GainFallOff ==
    /\ g_pc = "path"
    /\ path = <<>>
    /\ result' = None
    /\ g_pc' = "returned"
    /\ UNCHANGED <<envVars, attackVars, number_units, unit_type, path, squad, frame_index>>

GainNext == GainEnter \/ GainFrame \/ GainReturn \/ GainFallOff

GainSpec == GainInit /\ [][GainNext]_vars

----------------------------------------------------------------------------
(* The map and the resources as attempt_to_attack queries them *)

\* line 124: get_edge_locations(BOTTOM_LEFT) + get_edge_locations(BOTTOM_RIGHT),
\* the cells (0,13), (1,12), (2,11), ... of the lower left edge of the arena
friendly_edges == [i \in 1..NumEdge |-> <<i - 1, 14 - i>>]

EdgeSet == {friendly_edges[i] : i \in 1..NumEdge}

\* What the engine knows about one edge location: whether a stationary unit
\* stands on it and the path find_path_to_edge returns from it.  Only the
\* first cell of a path is ever read (line 186), so a path is kept up to its
\* first cell; GainSpec runs gain_of_attack on longer paths.
EdgeStates ==
    {[blocked |-> TRUE, path |-> <<>>]}
      \cup [blocked : {FALSE}, path : PathsUpTo(1)]

Boards == [EdgeSet -> EdgeStates]

contains_stationary_unit(b, location) == b[location].blocked
find_path_to_edge(b, location) == b[location].path

\* game_state.number_affordable(unit): whole units the held MP pay for
number_affordable(cfg, held, unit) == held \div cfg.units[unit].cost

\* lines 300-305
filter_blocked_locations(locations, b) ==
    LET Free(location) == ~contains_stationary_unit(b, location)
    IN SelectSeq(locations, Free)

----------------------------------------------------------------------------
(* attempt_to_attack, lines 104-165 *)

Init ==
    /\ config \in Configs
    /\ mp \in 0..MaxMP
    /\ board \in Boards
    /\ pc = "start"
    /\ AttackUnset
    /\ GainIdle

\* lines 110-125
Begin ==
    /\ pc = "start"
    /\ max_scout_spawn' = number_affordable(config, mp, SCOUT)
    /\ max_interceptor_spawn' = number_affordable(config, mp, INTERCEPTOR) \div 2
    /\ max_demolisher_spawn' = number_affordable(config, mp, DEMOLISHER) \div 2
    /\ scout_gain' = initial_gain
    /\ demolisher_gain' = initial_gain
    /\ interceptor_gains' = <<initial_gain, initial_gain>>
    /\ interceptor_deploy_locations' = <<initial_location, initial_location>>
    /\ deploy_locations' = filter_blocked_locations(friendly_edges, board)
    /\ pc' = "loop"
    /\ UNCHANGED <<envVars, gainVars, scout_deploy_location,
                   demolisher_deploy_location, visited, opt1_gain,
                   location_index, opt2_gain, spawned, fault>>

\* lines 132-134 and 135-137: keep the best gain and where it was found
KeepBest(best, gain_location, location) ==
    IF gain_location > best.gain
    THEN [gain |-> gain_location, location |-> location]
    ELSE best

\* KeepTopTwo with lines 140 and 142 in the other order: slot 1 is copied
\* from slot 0 after slot 0 took the new location
KeepTopTwoShiftAfter(gains, locations, gain_location, location) ==
    IF gain_location > gains[1]
    THEN [gains |-> <<gain_location, gains[1]>>,
          locations |-> <<location, location>>]
    ELSE IF gain_location > gains[2]
    THEN [gains |-> <<gains[1], gain_location>>,
          locations |-> <<locations[1], location>>]
    ELSE [gains |-> gains, locations |-> locations]

\* lines 138-145: keep the two best interceptor gains and where they were found
KeepTopTwo(gains, locations, gain_location, location) ==
    IF gain_location > gains[1]
    THEN [gains |-> <<gain_location, gains[1]>>,
          locations |-> <<location, locations[1]>>]
    ELSE IF gain_location > gains[2]
    THEN [gains |-> <<gains[1], gain_location>>,
          locations |-> <<locations[1], location>>]
    ELSE [gains |-> gains, locations |-> locations]

\* the candidate the for loop of line 128 takes next
NextLocation == deploy_locations[visited + 1]

GainAt(location, count, unit) ==
    gain_of_attack(config, find_path_to_edge(board, location), count, unit)

\* lines 128-145: one pass of the loop over the deploy locations
LoopBody ==
    /\ pc = "loop"
    /\ visited < Len(deploy_locations)
    /\ LET location == NextLocation
           gain_location_scout == GainAt(location, max_scout_spawn, SCOUT)
           gain_location_demolisher == GainAt(location, max_demolisher_spawn, DEMOLISHER)
           gain_location_interceptor == GainAt(location, max_interceptor_spawn, INTERCEPTOR)
       IN /\ gain_location_scout # None
          /\ LET scout == KeepBest([gain |-> scout_gain, location |-> scout_deploy_location],
                                   gain_location_scout[1], location)
                 demolisher == KeepBest([gain |-> demolisher_gain,
                                         location |-> demolisher_deploy_location],
                                        gain_location_demolisher[1], location)
                 interceptor == KeepTopTwo(interceptor_gains, interceptor_deploy_locations,
                                           gain_location_interceptor[1], location)
             IN /\ scout_gain' = scout.gain
                /\ scout_deploy_location' = scout.location
                /\ demolisher_gain' = demolisher.gain
                /\ demolisher_deploy_location' = demolisher.location
                /\ interceptor_gains' = interceptor.gains
                /\ interceptor_deploy_locations' = interceptor.locations
    /\ visited' = visited + 1
    /\ UNCHANGED <<envVars, gainVars, pc, max_scout_spawn, max_interceptor_spawn,
                   max_demolisher_spawn, deploy_locations, opt1_gain,
                   location_index, opt2_gain, spawned, fault>>

\* line 132 with a gain that is None: "None > int" raises TypeError
LoopBodyTypeError ==
    /\ pc = "loop"
    /\ visited < Len(deploy_locations)
    /\ GainAt(NextLocation, max_scout_spawn, SCOUT) = None
    /\ fault' = <<"TypeError">>
    /\ pc' = "fault"
    /\ UNCHANGED <<envVars, gainVars, max_scout_spawn, max_interceptor_spawn,
                   max_demolisher_spawn, scout_gain, demolisher_gain, interceptor_gains,
                   scout_deploy_location, demolisher_deploy_location,
                   interceptor_deploy_locations, deploy_locations, visited,
                   opt1_gain, location_index, opt2_gain, spawned>>

\* the divisors of lines 149 and 151
Opt1Divisor == config.units[SCOUT].cost * max_scout_spawn
Opt2Divisor ==
    config.units[DEMOLISHER].cost * max_demolisher_spawn
      + config.units[INTERCEPTOR].cost * max_interceptor_spawn

unchangedBySteps ==
    <<envVars, gainVars, max_scout_spawn, max_interceptor_spawn,
      max_demolisher_spawn, scout_gain, demolisher_gain, interceptor_gains,
      scout_deploy_location, demolisher_deploy_location,
      interceptor_deploy_locations, deploy_locations, visited>>

\* line 149
Opt1 ==
    /\ pc = "loop"
    /\ visited = Len(deploy_locations)
    /\ Opt1Divisor # 0
    /\ opt1_gain' = <<scout_gain, Opt1Divisor>>
    /\ pc' = "index"
    /\ UNCHANGED <<unchangedBySteps, location_index, opt2_gain, spawned, fault>>

\* line 149 dividing by zero
Opt1ZeroDivision ==
    /\ pc = "loop"
    /\ visited = Len(deploy_locations)
    /\ Opt1Divisor = 0
    /\ fault' = <<"ZeroDivisionError">>
    /\ pc' = "fault"
    /\ UNCHANGED <<unchangedBySteps, opt1_gain, location_index, opt2_gain, spawned>>

\* LocationIndex that always takes the best interceptor location
LocationIndexAlwaysBest(locations, demolisher_location) == 0

\* line 150: int(interceptor_deploy_locations[0] == demolisher_deploy_location)
LocationIndex(locations, demolisher_location) ==
    IF locations[1] = demolisher_location THEN 1 ELSE 0

\* line 150
Index ==
    /\ pc = "index"
    /\ demolisher_deploy_location # Unbound
    /\ location_index' = <<LocationIndex(interceptor_deploy_locations,
                                         demolisher_deploy_location)>>
    /\ pc' = "opt2"
    /\ UNCHANGED <<unchangedBySteps, opt1_gain, opt2_gain, spawned, fault>>

\* line 150 reading demolisher_deploy_location, which no pass of the loop bound
IndexUnbound ==
    /\ pc = "index"
    /\ demolisher_deploy_location = Unbound
    /\ fault' = <<"UnboundLocalError">>
    /\ pc' = "fault"
    /\ UNCHANGED <<unchangedBySteps, opt1_gain, location_index, opt2_gain, spawned>>

\* line 151
Opt2 ==
    /\ pc = "opt2"
    /\ Opt2Divisor # 0
    /\ opt2_gain' = <<demolisher_gain + interceptor_gains[location_index[1] + 1],
                      Opt2Divisor>>
    /\ pc' = "decide"
    /\ UNCHANGED <<unchangedBySteps, opt1_gain, location_index, spawned, fault>>

\* line 151 dividing by zero
Opt2ZeroDivision ==
    /\ pc = "opt2"
    /\ Opt2Divisor = 0
    /\ fault' = <<"ZeroDivisionError">>
    /\ pc' = "fault"
    /\ UNCHANGED <<unchangedBySteps, opt1_gain, location_index, opt2_gain, spawned>>

\* a/b >= c/d for quotients with positive divisors
AtLeast(q, r) == q[1] * r[2] >= r[1] * q[2]
Threshold == <<minGainPerSPSpent, 1>>

\* Decision with line 156 written "opt1_gain > opt2_gain"
DecisionTieToCombo(opt1, opt2) ==
    IF AtLeast(opt1, Threshold) /\ AtLeast(opt2, Threshold)
    THEN IF ~AtLeast(opt2, opt1) THEN "scout" ELSE "combo"
    ELSE IF AtLeast(opt1, Threshold) THEN "scout"
    ELSE IF AtLeast(opt2, Threshold) THEN "combo"
    ELSE "none"

\* lines 155-165: which branch of the if/elif chain runs
Decision(opt1, opt2) ==
    IF AtLeast(opt1, Threshold) /\ AtLeast(opt2, Threshold)
    THEN IF AtLeast(opt1, opt2) THEN "scout" ELSE "combo"
    ELSE IF AtLeast(opt1, Threshold) THEN "scout"
    ELSE IF AtLeast(opt2, Threshold) THEN "combo"
    ELSE "none"

\* one game_state.attempt_spawn(unit, location, num) call
SpawnCall(unit, location, num) == [unit |-> unit, location |-> location, num |-> num]

\* lines 157 and 162
ScoutCalls == <<SpawnCall(SCOUT, scout_deploy_location, max_scout_spawn)>>

\* lines 159-160 and 164-165
ComboCalls ==
    <<SpawnCall(DEMOLISHER, demolisher_deploy_location, max_demolisher_spawn),
      SpawnCall(INTERCEPTOR, interceptor_deploy_locations[location_index[1] + 1],
                max_interceptor_spawn)>>

\* lines 155-165
Decide ==
    /\ pc = "decide"
    /\ LET branch == Decision(opt1_gain, opt2_gain)
       IN IF branch = "scout" /\ scout_deploy_location = Unbound
          THEN /\ fault' = <<"UnboundLocalError">>
               /\ pc' = "fault"
               /\ UNCHANGED spawned
          ELSE /\ spawned' = CASE branch = "scout" -> ScoutCalls
                               [] branch = "combo" -> ComboCalls
                               [] OTHER -> <<>>
               /\ pc' = "done"
               /\ UNCHANGED fault
    /\ UNCHANGED <<unchangedBySteps, opt1_gain, location_index, opt2_gain>>

Next ==
    \/ Begin
    \/ LoopBody
    \/ LoopBodyTypeError
    \/ Opt1
    \/ Opt1ZeroDivision
    \/ Index
    \/ IndexUnbound
    \/ Opt2
    \/ Opt2ZeroDivision
    \/ Decide

Spec == Init /\ [][Next]_vars

----------------------------------------------------------------------------
(* Claims about gain_of_attack, checked under GainSpec *)

NoDefenders(p) == \A i \in 1..Len(p) : p[i].num_turrets = 0

GainReturned == g_pc = "returned" /\ path # <<>>

\* C5 as stated: on a non-empty path that no defender can hit,
\* gain_of_attack returns exactly number_units * weight_score and ends with
\* remaining_units equal to number_units.
C5_GainIsStartCountTimesWeight ==
    (GainReturned /\ NoDefenders(path)) =>
        /\ squad.remaining_units = number_units
        /\ result = <<number_units * weight_score>>

\* C5 as amended: on a non-empty path that no defender can hit, a unit that
\* spends at least one frame on a cell ends with number_units + 1 remaining
\* units (line 185 adds one to the quotient), a unit that spends none ends
\* with number_units; the gain is the damage dealt to the enemy health in
\* range of the first cell plus weight_score times that remaining count.
C5_GainWithoutDefenders ==
    (GainReturned /\ NoDefenders(path)) =>
        LET frames == FramesPerCell(unit_class)
            survivors == IF frames >= 1 THEN number_units + 1 ELSE number_units
            target == total_target_health(Head(path), unit_class.attackRange)
            dealt == IF frames >= 1
                     THEN Min(unit_class.damage_f * number_units, target)
                            + (frames - 1)
                                * Min(unit_class.damage_f * (number_units + 1), target)
                     ELSE 0
        IN /\ squad.remaining_units = survivors
           /\ squad.total_heath = unit_class.health * number_units
           /\ result = <<dealt * weight_damage_enemy + survivors * weight_score>>

\* C5 witness: a squad of at least one unit that spent two or more frames on
\* an undefended cell with enemy units in range has returned its gain.
C5_Witness ==
    /\ GainReturned /\ NoDefenders(path)
    /\ number_units >= 1
    /\ frame_index >= 2
    /\ squad.damage_dealt > 0
    /\ Len(path) = 2

\* C6 as stated: remaining_units is never negative after any frame.
C6_RemainingUnitsNeverNegative ==
    squad.remaining_units >= 0

----------------------------------------------------------------------------
(* Claims about attempt_to_attack, checked under Spec *)

Started == pc # "start"
Ended == pc \in {"done", "fault"}
LoopFinished == Started /\ pc # "fault" /\ visited = Len(deploy_locations)

Candidates == {deploy_locations[i] : i \in 1..Len(deploy_locations)}

IsScoutCommit ==
    /\ Len(spawned) = 1
    /\ spawned[1].unit = SCOUT
IsComboCommit ==
    /\ Len(spawned) = 2
    /\ spawned[1].unit = DEMOLISHER
    /\ spawned[2].unit = INTERCEPTOR

\* C1: with both scores at or above the threshold the larger one is
\* committed and a tie commits the scouts; with one score at or above the
\* threshold that strategy is committed; with none nothing is deployed; and
\* never more than one strategy is committed by one call.
C1_DecisionPolicy ==
    /\ pc # "done" => spawned = <<>>
    /\ pc = "done" =>
         LET n1 == opt1_gain[1]
             d1 == opt1_gain[2]
             n2 == opt2_gain[1]
             d2 == opt2_gain[2]
             pass1 == n1 >= minGainPerSPSpent * d1
             pass2 == n2 >= minGainPerSPSpent * d2
         IN /\ (pass1 /\ pass2 /\ n1 * d2 > n2 * d1) => IsScoutCommit
            /\ (pass1 /\ pass2 /\ n1 * d2 < n2 * d1) => IsComboCommit
            /\ (pass1 /\ pass2 /\ n1 * d2 = n2 * d1) => IsScoutCommit
            /\ (pass1 /\ ~pass2) => IsScoutCommit
            /\ (~pass1 /\ pass2) => IsComboCommit
            /\ (~pass1 /\ ~pass2) => spawned = <<>>
            /\ IsScoutCommit => spawned[1] = SpawnCall(SCOUT, scout_deploy_location,
                                                       max_scout_spawn)
            /\ IsComboCommit => spawned[1] = SpawnCall(DEMOLISHER,
                                                       demolisher_deploy_location,
                                                       max_demolisher_spawn)
            /\ IsScoutCommit \/ IsComboCommit \/ spawned = <<>>

\* C1 witness: both scores reached the threshold, they are equal, and the
\* scouts were deployed.
C1_Witness ==
    /\ pc = "done"
    /\ opt1_gain[1] >= minGainPerSPSpent * opt1_gain[2]
    /\ opt1_gain[1] * opt2_gain[2] = opt2_gain[1] * opt1_gain[2]
    /\ IsScoutCommit

\* C2 as stated: a strategy whose unit count is 0 never makes the call fault
\* with a division by zero, and with all three counts 0 the call completes
\* and deploys nothing.
C2_ZeroCountsNeverFault ==
    /\ fault # <<"ZeroDivisionError">>
    /\ (Ended /\ max_scout_spawn = 0 /\ max_demolisher_spawn = 0
          /\ max_interceptor_spawn = 0)
         => (pc = "done" /\ spawned = <<>>)

\* C3 as stated: with no deploy location left after filtering, the call
\* evaluates no strategy, deploys nothing and ends without an error.
C3_NoCandidatesEndsNormally ==
    (Started /\ deploy_locations = <<>>) =>
        /\ pc # "fault"
        /\ spawned = <<>>

\* C4 as stated: a candidate without a path gets a numeric gain, is never
\* chosen for any unit type and never makes the call fault.
C4_NoPathIsIneligible ==
    LET Chosen == {scout_deploy_location, demolisher_deploy_location}
                    \cup {interceptor_deploy_locations[i] :
                            i \in 1..Len(interceptor_deploy_locations)}
    IN /\ fault # <<"TypeError">>
       /\ \A location \in Chosen \cap EdgeSet :
             find_path_to_edge(board, location) # <<>>

\* C7 as stated: from the initialization on, the two interceptor slots never
\* hold the same location.
C7_SlotsNeverSame ==
    Started => interceptor_deploy_locations[1] # interceptor_deploy_locations[2]

\* C7 as amended: the two interceptor slots hold the same location exactly
\* while slot 0 still holds its initial location [0,0], that is until a
\* candidate's interceptor gain has exceeded -999; from then on they differ.
C7_SlotsDifferOnceRanked ==
    Started =>
        /\ (interceptor_deploy_locations[1] = interceptor_deploy_locations[2])
             <=> (interceptor_deploy_locations[1] = initial_location)
        /\ (interceptor_deploy_locations[1] = initial_location)
             <=> (interceptor_gains[1] = initial_gain)

\* C7 witness: the loop has gone through three candidates and both slots
\* hold candidates.
C7_Witness ==
    /\ pc = "loop"
    /\ visited = 3
    /\ interceptor_deploy_locations[1] \in Candidates
    /\ interceptor_deploy_locations[2] \in Candidates

\* C8: when the combo is committed the interceptors go to slot 0 if it
\* differs from the demolishers' location and to slot 1 otherwise, the combo
\* score was computed with the gain of that same slot, and the two locations
\* of the commit differ.
C8_ComboAvoidsDemolisherLocation ==
    (pc = "done" /\ IsComboCommit) =>
        LET rank == IF interceptor_deploy_locations[1] # demolisher_deploy_location
                    THEN 1 ELSE 2
        IN /\ spawned[1].location = demolisher_deploy_location
           /\ spawned[2].location = interceptor_deploy_locations[rank]
           /\ opt2_gain[1] = demolisher_gain + interceptor_gains[rank]
           /\ spawned[2].location # spawned[1].location

\* C8 witness: the combo was committed with the second-best interceptor
\* location, a candidate, because the best one is the demolishers' location.
C8_Witness ==
    /\ pc = "done" /\ IsComboCommit
    /\ interceptor_deploy_locations[1] = demolisher_deploy_location
    /\ spawned[2].location = interceptor_deploy_locations[2]
    /\ spawned[2].location \in Candidates

\* the gain of the i-th candidate for a unit type, as the loop computes it
CandidateGain(i, count, unit) == GainAt(deploy_locations[i], count, unit)[1]

\* the first candidate in iteration order with the greatest gain
FirstBest(count, unit) ==
    CHOOSE i \in 1..Len(deploy_locations) :
        /\ \A j \in 1..Len(deploy_locations) :
              CandidateGain(j, count, unit) <= CandidateGain(i, count, unit)
        /\ \A j \in 1..(i - 1) :
              CandidateGain(j, count, unit) < CandidateGain(i, count, unit)

\* the candidates that a stable descending sort by gain puts before the i-th
SortedBefore(i, count, unit) ==
    {j \in 1..Len(deploy_locations) :
        \/ CandidateGain(j, count, unit) > CandidateGain(i, count, unit)
        \/ /\ CandidateGain(j, count, unit) = CandidateGain(i, count, unit)
           /\ j < i}

\* the candidate a stable descending sort by gain puts at place k
SortedAt(k, count, unit) ==
    CHOOSE i \in 1..Len(deploy_locations) :
        Cardinality(SortedBefore(i, count, unit)) = k - 1

\* C9 as stated: after the loop over a non-empty list of candidates with
\* numeric gains, the scout and demolisher locations are the first candidates
\* with the greatest gain of their type, and the interceptor slots hold the
\* first two candidates of a stable descending sort by interceptor gain.
C9_LoopKeepsStableBest ==
    (LoopFinished /\ deploy_locations # <<>>) =>
        /\ scout_deploy_location
             = deploy_locations[FirstBest(max_scout_spawn, SCOUT)]
        /\ scout_gain
             = CandidateGain(FirstBest(max_scout_spawn, SCOUT), max_scout_spawn, SCOUT)
        /\ demolisher_deploy_location
             = deploy_locations[FirstBest(max_demolisher_spawn, DEMOLISHER)]
        /\ interceptor_deploy_locations[1]
             = deploy_locations[SortedAt(1, max_interceptor_spawn, INTERCEPTOR)]
        /\ interceptor_gains[1]
             = CandidateGain(SortedAt(1, max_interceptor_spawn, INTERCEPTOR),
                             max_interceptor_spawn, INTERCEPTOR)
        /\ Len(deploy_locations) >= 2 =>
             /\ interceptor_deploy_locations[2]
                  = deploy_locations[SortedAt(2, max_interceptor_spawn, INTERCEPTOR)]
             /\ interceptor_gains[2]
                  = CandidateGain(SortedAt(2, max_interceptor_spawn, INTERCEPTOR),
                                  max_interceptor_spawn, INTERCEPTOR)

\* C10 as stated: every deployment call targets a candidate deploy location,
\* and the initial location [0,0] and the initial gain -999 of the
\* interceptor slots are never the location or the gain of a commit.
C10_SpawnsTargetCandidates ==
    /\ \A k \in 1..Len(spawned) :
          /\ spawned[k].location \in Candidates
          /\ spawned[k].location # initial_location
    /\ IsComboCommit => interceptor_gains[location_index[1] + 1] # initial_gain

====
